---- MODULE Spec2Model ----
(***************************************************************************)
(* Model of opinion_builder's in-memory Topic Store                        *)
(* (services/cache_service.py, class CacheService).                        *)
(*                                                                         *)
(* Python strings that the store inspects (question, description,          *)
(* categories, search queries) are sequences of one-character strings, so  *)
(* that lower(), split() and the substring test are computed.  Prices are  *)
(* opaque strings: the store only copies them.  Optional fields that are   *)
(* None hold the value None; an absent description is the empty string,    *)
(* since the two places that read it (lines 104 and 124) only test its     *)
(* truthiness.                                                             *)
(***************************************************************************)
EXTENDS Integers, Sequences, FiniteSets, TLC

\* ------------------------------------------------------------------ bounds

\* max_size of the store is drawn from 1..MaxSizeBound when it is constructed.
MaxSizeBound == 2
\* initialize_topics is called with lists of at most MaxInitLen topics.
MaxInitLen == 2
\* at most MaxAttempts calls of _connect are followed.
MaxAttempts == 6
\* at most MaxSent frames are sent through one WebSocketApp.
MaxSent == 4

\* ------------------------------------------------------------ data domains

None == "None"
MarketIds == {1, 2, 3}
Prices == {"0.40", "0.55"}
\* outcome_side 1 is Yes, 2 is No, 3 stands for every other integer.
OutcomeSides == {1, 2, 3}
\* values datetime.now() can return, in increasing order
Times == {0, 1}
\* (shares, amount) of a trade message
TradeSizes == {<<"10", "20">>, <<"20", "10">>}

VARIABLES
  max_size,      \* CacheService._max_size
  topics,        \* CacheService._topics, in OrderedDict order (oldest first)
  search_index,  \* CacheService._search_index: word -> set of market ids
  now,           \* the wall clock read by datetime.now()
  snapshot,      \* the list a caller got from get_all_topics and still holds
  ret,           \* what the most recent store call returned
  upserted       \* history: the market ids given to set_topic so far, in the
                 \* order of their most recent set_topic call (oldest first)

store_vars == <<max_size, topics, search_index, now, snapshot, ret, upserted>>

\* OpinionWebSocketConsumer (websocket/consumer.py)
VARIABLES
  running,          \* _running
  ws,               \* _ws: None, or the state of the WebSocketApp it refers to
  tasks,            \* the heartbeat tasks created so far, oldest first;
                    \* _heartbeat_task is the last one (None while there is none)
  reconnect_delay,  \* _reconnect_delay
  loop_pc,          \* where the coroutine of start() is
  stop_pc,          \* where the coroutine of stop() is
  sent,             \* the frames sent through the WebSocketApp _ws refers to
  subscribing,      \* a _subscribe_all_markets task was created and has not run
  attempts,         \* history: the number of _connect calls so far
  stopped_at,       \* history: what ws was when stop() was called
  displaced_pc,     \* where the coroutine of another start() call is, whose
                    \* WebSocketApp _ws no longer refers to ("none": no such call)
  displaced_ws,     \* the state of the WebSocketApp that coroutine waits for
  failures          \* history: the number of _connect calls in a row that
                    \* raised and were followed by the backoff sleep

consumer_vars ==
  <<running, ws, tasks, reconnect_delay, loop_pc, stop_pc, sent, subscribing,
    attempts, stopped_at, displaced_pc, displaced_ws, failures>>

\* callers of the store (services/cache_service.py)
VARIABLES
  lock,  \* CacheService._lock: the caller that holds it, None while it is free
  call   \* for each caller, the store method it is inside and how far it got

lock_vars == <<lock, call>>

vars == <<store_vars, consumer_vars, lock_vars>>

\* min(a, b)
Min(a, b) == IF a <= b THEN a ELSE b

\* ------------------------------------------------------------ Python strings

LowerChar(c) ==
  CASE c = "A" -> "a"
    [] c = "B" -> "b"
    [] OTHER -> c

\* str.lower()
Lower(s) == [i \in 1..Len(s) |-> LowerChar(s[i])]

\* sub in s
Contains(sub, s) ==
  \E i \in 0..(Len(s) - Len(sub)) :
    \A j \in 1..Len(sub) : s[i + j] = sub[j]

RECURSIVE SplitFrom(_, _, _)
\* the words of s from position i on, cur being the word collected so far
SplitFrom(s, i, cur) ==
  IF i > Len(s)
    THEN IF cur = <<>> THEN {} ELSE {cur}
    ELSE IF s[i] = " "
           THEN (IF cur = <<>> THEN {} ELSE {cur}) \cup SplitFrom(s, i + 1, <<>>)
           ELSE SplitFrom(s, i + 1, Append(cur, s[i]))

\* set(s.split()): the whitespace-separated words of s
SplitWords(s) == SplitFrom(s, 1, <<>>)

\* ------------------------------------------------------------------ topics

\* Topic objects as the callers of the store build them
\* (TopicService._market_to_topic stamps updated_at with datetime.now()).
NewTopics(t) ==
  { [market_id |-> 1, question |-> <<"A", "b">>, description |-> <<>>,
     categories |-> <<>>, outcome_type |-> "binary", volume |-> None,
     last_price |-> None, yes_price |-> None, no_price |-> None,
     updated_at |-> t],
    [market_id |-> 1, question |-> <<"b", " ", "a">>, description |-> <<"B">>,
     categories |-> <<>>, outcome_type |-> "binary", volume |-> "5",
     last_price |-> "0.40", yes_price |-> "0.55", no_price |-> "0.40",
     updated_at |-> t],
    [market_id |-> 2, question |-> <<"b">>, description |-> <<"a", " ", "B">>,
     categories |-> << <<"A">> >>, outcome_type |-> "categorical",
     volume |-> "5", last_price |-> "0.40", yes_price |-> "0.40",
     no_price |-> None, updated_at |-> t],
    [market_id |-> 3, question |-> <<"a">>, description |-> <<>>,
     categories |-> << <<"b", " ", "b">>, <<"A", "b">> >>,
     outcome_type |-> "scalar", volume |-> None,
     last_price |-> None, yes_price |-> None, no_price |-> "0.55",
     updated_at |-> t] }

Keys(ts) == {ts[i].market_id : i \in 1..Len(ts)}

\* OrderedDict.get: the position of key m, 0 when absent
KeyPos(ts, m) ==
  IF m \in Keys(ts)
    THEN CHOOSE i \in 1..Len(ts) : ts[i].market_id = m
    ELSE 0

\* del d[m]
DeleteKey(ts, m) == SelectSeq(ts, LAMBDA x : x.market_id # m)

\* d[m] = topic: an existing key keeps its position, a new key goes last
AssignKey(ts, topic) ==
  IF topic.market_id \in Keys(ts)
    THEN [ts EXCEPT ![KeyPos(ts, topic.market_id)] = topic]
    ELSE Append(ts, topic)

\* mutant of PopFirst: d.popitem(), which takes the newest entry
PopNewest(ts) == SubSeq(ts, 1, Len(ts) - 1)

\* d.popitem(last=False)
PopFirst(ts) == Tail(ts)

\* mutant of AfterGet: a lookup that refreshes the entry (d.move_to_end(m))
AfterGetMovedToEnd(ts, m) ==
  IF m \in Keys(ts) THEN Append(DeleteKey(ts, m), ts[KeyPos(ts, m)]) ELSE ts

\* d.get(m) looks the key up and leaves the dict, its order included, as it is
AfterGet(ts, m) == ts

\* ------------------------------------------------------------ search index

\* the words _update_search_index extracts from a topic
TopicWords(topic) ==
  SplitWords(Lower(topic.question))
    \cup (IF topic.description # <<>>
            THEN SplitWords(Lower(topic.description)) ELSE {})
    \cup UNION { SplitWords(Lower(topic.categories[i])) :
                 i \in 1..Len(topic.categories) }

\* mutant of UpdateSearchIndex: the market id is taken out of the words the
\* topic no longer has
UpdateSearchIndexDroppingStale(idx, topic) ==
  [w \in (DOMAIN idx) \cup TopicWords(topic) |->
     IF w \in TopicWords(topic)
       THEN (IF w \in DOMAIN idx THEN idx[w] ELSE {}) \cup {topic.market_id}
       ELSE idx[w] \ {topic.market_id}]

\* CacheService._update_search_index
UpdateSearchIndex(idx, topic) ==
  [w \in (DOMAIN idx) \cup TopicWords(topic) |->
     (IF w \in DOMAIN idx THEN idx[w] ELSE {})
       \cup (IF w \in TopicWords(topic) THEN {topic.market_id} ELSE {})]

\* --------------------------------------------------------- store operations

\* mutant of Reinsert: the entry is assigned without being deleted first
ReinsertInPlace(ts, topic) == AssignKey(ts, topic)

\* CacheService.set_topic, lines 38-40: drop the old entry, insert at the end
Reinsert(ts, topic) ==
  Append(IF topic.market_id \in Keys(ts)
           THEN DeleteKey(ts, topic.market_id) ELSE ts,
         topic)

\* mutant of EvictIfOver: the limit is compared one too high
EvictIfFarOver(ts, max) == IF Len(ts) > max + 1 THEN PopFirst(ts) ELSE ts

\* CacheService.set_topic, lines 44-45: evict the oldest entry if over the limit
EvictIfOver(ts, max) == IF Len(ts) > max THEN PopFirst(ts) ELSE ts

\* the OrderedDict after set_topic(topic)
SetTopicStore(ts, topic, max) == EvictIfOver(Reinsert(ts, topic), max)

\* mutant of PriceUpdated: the No side also moves last_price
PriceUpdatedNoMovesLast(topic, outcome_side, price, time) ==
  LET priced ==
        IF outcome_side = 1
          THEN [topic EXCEPT !.yes_price = price, !.last_price = price]
          ELSE IF outcome_side = 2
                 THEN [topic EXCEPT !.no_price = price, !.last_price = price]
                 ELSE topic
  IN [priced EXCEPT !.updated_at = time]

\* CacheService.update_price, lines 62-67, on the topic found
PriceUpdated(topic, outcome_side, price, time) ==
  LET priced ==
        IF outcome_side = 1
          THEN [topic EXCEPT !.yes_price = price, !.last_price = price]
          ELSE IF outcome_side = 2
                 THEN [topic EXCEPT !.no_price = price]
                 ELSE topic
  IN [priced EXCEPT !.updated_at = time]

\* mutant of UpdatePriceStore: a market that is not stored gets an entry
UpdatePriceStoreInserting(ts, market_id, outcome_side, price, time) ==
  IF KeyPos(ts, market_id) # 0
    THEN [ts EXCEPT ![KeyPos(ts, market_id)] =
            PriceUpdated(@, outcome_side, price, time)]
    ELSE Append(ts,
                PriceUpdated(CHOOSE t \in NewTopics(time) :
                               t.market_id = market_id,
                             outcome_side, price, time))

\* the OrderedDict after update_price(market_id, outcome_side, price)
UpdatePriceStore(ts, market_id, outcome_side, price, time) ==
  IF KeyPos(ts, market_id) # 0
    THEN [ts EXCEPT ![KeyPos(ts, market_id)] =
            PriceUpdated(@, outcome_side, price, time)]
    ELSE ts

\* messages of models/websocket.py that update_from_ws_message accepts
LastPriceMessage(market_id, outcome_side, price) ==
  [msg_type |-> "market.last.price", market_id |-> market_id,
   outcome_side |-> outcome_side, price |-> price,
   shares |-> None, amount |-> None]

LastTradeMessage(market_id, outcome_side, price, shares, amount) ==
  [msg_type |-> "market.last.trade", market_id |-> market_id,
   outcome_side |-> outcome_side, price |-> price,
   shares |-> shares, amount |-> amount]

DepthDiffMessage(market_id, outcome_side, price) ==
  [msg_type |-> "market.depth.diff", market_id |-> market_id,
   outcome_side |-> outcome_side, price |-> price,
   shares |-> None, amount |-> None]

WsMessages ==
  { LastPriceMessage(m, s, p) :
      m \in MarketIds, s \in OutcomeSides, p \in Prices }
  \cup
  { LastTradeMessage(m, s, p, q[1], q[2]) :
      m \in MarketIds, s \in OutcomeSides, p \in Prices, q \in TradeSizes }
  \cup
  { DepthDiffMessage(m, s, p) :
      m \in MarketIds, s \in OutcomeSides, p \in Prices }

\* update_from_ws_message, lines 81-86: the LastPriceMessage branch
LastPriceApplied(topic, message) ==
  IF message.outcome_side = 1
    THEN [topic EXCEPT !.yes_price = message.price,
                       !.last_price = message.price]
    ELSE IF message.outcome_side = 2
           THEN [topic EXCEPT !.no_price = message.price]
           ELSE topic

\* mutant of LastTradeApplied: every trade price becomes the last price
LastTradeMovesLast(topic, message) ==
  IF message.outcome_side = 1
    THEN [topic EXCEPT !.yes_price = message.price,
                       !.last_price = message.price]
    ELSE IF message.outcome_side = 2
           THEN [topic EXCEPT !.no_price = message.price,
                              !.last_price = message.price]
           ELSE topic

\* update_from_ws_message, lines 87-93: the LastTradeMessage branch
LastTradeApplied(topic, message) ==
  IF message.outcome_side = 1
    THEN [topic EXCEPT !.yes_price = message.price,
                       !.last_price = message.price]
    ELSE IF message.outcome_side = 2
           THEN [topic EXCEPT !.no_price = message.price]
           ELSE topic

\* update_from_ws_message, lines 79-93, on the topic found
WsUpdated(topic, message, time) ==
  LET stamped == [topic EXCEPT !.updated_at = time]
  IN IF message.msg_type = "market.last.price"
       THEN LastPriceApplied(stamped, message)
       ELSE IF message.msg_type = "market.last.trade"
              THEN LastTradeApplied(stamped, message)
              ELSE stamped

\* the OrderedDict after update_from_ws_message(message)
UpdateFromWsStore(ts, message, time) ==
  IF KeyPos(ts, message.market_id) # 0
    THEN [ts EXCEPT ![KeyPos(ts, message.market_id)] =
            WsUpdated(@, message, time)]
    ELSE ts

RECURSIVE InitializeStore(_, _)
\* the OrderedDict after initialize_topics(list), lines 116-117
InitializeStore(ts, list) ==
  IF list = <<>> THEN ts
  ELSE InitializeStore(AssignKey(ts, Head(list)), Tail(list))

RECURSIVE IndexAll(_, _)
\* the index after _update_search_index ran on every topic of the list
IndexAll(idx, list) ==
  IF list = <<>> THEN idx
  ELSE IndexAll(UpdateSearchIndex(idx, Head(list)), Tail(list))

\* mutant of Matches: only the question is looked at
MatchesQuestionOnly(topic, query_lower) ==
  Contains(query_lower, Lower(topic.question))

\* CacheService.search, lines 98-111: the scan stops once limit is reached
Matches(topic, query_lower) ==
  \/ Contains(query_lower, Lower(topic.question))
  \/ (topic.description # <<>>
       /\ Contains(query_lower, Lower(topic.description)))
  \/ \E i \in 1..Len(topic.categories) :
       Contains(query_lower, Lower(topic.categories[i]))

RECURSIVE SearchScan(_, _, _, _)
SearchScan(ts, query_lower, limit, results) ==
  IF ts = <<>> THEN results
  ELSE IF Matches(Head(ts), query_lower)
         THEN IF Len(results) + 1 >= limit
                THEN Append(results, Head(ts))
                ELSE SearchScan(Tail(ts), query_lower, limit,
                                Append(results, Head(ts)))
         ELSE SearchScan(Tail(ts), query_lower, limit, results)

SearchResult(ts, query, limit) == SearchScan(ts, Lower(query), limit, <<>>)

\* ---------------------------------------------------- callers' references

\* What a call returns: kind names the call, topics the Topic objects
\* returned (in order), count the integer returned.
NoRet == [kind |-> "None", topics |-> <<>>, count |-> 0]

\* get_all_topics returns a new list of references to the stored Topic
\* objects (line 50).  An element of the held list is the object stored under
\* key at that time: while that object is still the one stored under key
\* (frozen = <<>>), reading the element reads the stored object, in-place
\* changes included; once the store has dropped or replaced the object,
\* nothing writes to it any more and frozen holds it.
Deref(entry, ts) ==
  IF entry.frozen = <<>> THEN ts[KeyPos(ts, entry.key)] ELSE entry.frozen[1]

\* the held list after the store has dropped the objects it had under `gone`
Detached(snap, old, gone) ==
  [i \in 1..Len(snap) |->
     IF snap[i].frozen = <<>> /\ snap[i].key \in gone
       THEN [snap[i] EXCEPT !.frozen = <<old[KeyPos(old, snap[i].key)]>>]
       ELSE snap[i]]

\* list(self._topics.values())
ListOfValues(ts) ==
  [i \in 1..Len(ts) |-> [key |-> ts[i].market_id, frozen |-> <<>>]]

\* the Topic objects a caller reads through the list it holds
SnapshotView == [i \in 1..Len(snapshot) |-> Deref(snapshot[i], topics)]

\* ------------------------------------------------------- websocket consumer

\* _reconnect_delay as set by __init__ (line 40) and after _connect returned
\* (line 70)
BaseDelay == 5
\* _max_reconnect_delay (line 41)
MaxReconnectDelay == 60

\* None in the integer fields market_id and root_market_id (every market id
\* of MarketIds is another integer)
NoId == 0

\* WebSocketSubscribeMessage.to_json: action and channel always, marketId and
\* rootMarketId only when they are not None
ToJson(msg) ==
  LET base == [k \in {"action", "channel"} |-> msg[k]]
      withMarket ==
        IF msg.market_id # NoId
          THEN [k \in DOMAIN base \cup {"marketId"} |->
                  IF k = "marketId" THEN msg.market_id ELSE base[k]]
          ELSE base
  IN IF msg.root_market_id # NoId
       THEN [k \in DOMAIN withMarket \cup {"rootMarketId"} |->
               IF k = "rootMarketId" THEN msg.root_market_id ELSE withMarket[k]]
       ELSE withMarket

\* WebSocketSubscribeMessage(action="SUBSCRIBE", channel=..., market_id=...,
\* root_market_id=...), the ids defaulting to None (NoId)
WebSocketSubscribeMessage(channel, market_id, root_market_id) ==
  [action |-> "SUBSCRIBE", channel |-> channel,
   market_id |-> market_id, root_market_id |-> root_market_id]

\* json.dumps({"action": "HEARTBEAT"})
HeartbeatFrame == [action |-> "HEARTBEAT"]

\* mutant of MarketFrames: the depth and trade channels are subscribed for
\* categorical markets too
MarketFramesAllChannels(market_id, outcome_type) ==
  << ToJson(IF outcome_type = "categorical"
              THEN WebSocketSubscribeMessage("market.last.price", NoId, market_id)
              ELSE WebSocketSubscribeMessage("market.last.price", market_id, NoId)),
     ToJson(WebSocketSubscribeMessage("market.depth.diff", market_id, NoId)),
     ToJson(WebSocketSubscribeMessage("market.last.trade", market_id, NoId)) >>

\* _subscribe_market, lines 128-158: the frames handed to _ws.send, in order
MarketFrames(market_id, outcome_type) ==
  << ToJson(IF outcome_type = "categorical"
              THEN WebSocketSubscribeMessage("market.last.price", NoId, market_id)
              ELSE WebSocketSubscribeMessage("market.last.price", market_id, NoId)) >>
  \o (IF outcome_type # "categorical"
        THEN << ToJson(WebSocketSubscribeMessage("market.depth.diff",
                                                 market_id, NoId)),
                ToJson(WebSocketSubscribeMessage("market.last.trade",
                                                 market_id, NoId)) >>
        ELSE <<>>)

RECURSIVE AllMarketFrames(_)
\* _subscribe_all_markets, lines 120-121: the frames of every topic of the
\* list, in list order
AllMarketFrames(list) ==
  IF list = <<>> THEN <<>>
  ELSE MarketFrames(Head(list).market_id, Head(list).outcome_type)
         \o AllMarketFrames(Tail(list))

\* the consumer as __init__ leaves it (lines 37-41)
ConsumerInit ==
  /\ running = FALSE
  /\ ws = None
  /\ tasks = <<>>
  /\ reconnect_delay = BaseDelay
  /\ loop_pc = "idle"
  /\ stop_pc = "idle"
  /\ sent = <<>>
  /\ subscribing = FALSE
  /\ attempts = 0
  /\ stopped_at = "-"
  /\ displaced_pc = "none"
  /\ displaced_ws = None
  /\ failures = 0

\* ------------------------------------------------------- the store's lock

\* Coroutines that call the store: frame handlers spawned by the consumer,
\* request handlers of the API.  Each is inside at most one store call.
Callers == {"handler", "query"}

\* a caller that is inside no store method
NoCall == [op |-> "none", arg |-> <<>>, pc |-> 0, entry |-> <<>>, index |-> <<>>]

\* The calls made, as [op, arg]; pc is the next statement of the method's
\* body, entry and index are history: _topics and _search_index as they were
\* when the caller got the lock.
StoreCalls ==
  { [op |-> "set_topic", arg |-> topic] : topic \in NewTopics(0) }
  \cup { [op |-> "update_price", arg |-> <<m, s, "0.55">>] :
           m \in {1}, s \in OutcomeSides }
  \cup { [op |-> "update_from_ws_message", arg |-> message] :
           message \in { LastPriceMessage(1, 1, "0.40"),
                         LastTradeMessage(2, 2, "0.55", "10", "20"),
                         DepthDiffMessage(1, 1, "0.40") } }
  \cup { [op |-> "initialize_topics", arg |-> list] :
           list \in {<<>>}
                     \cup {<<t, u>> : t \in NewTopics(0), u \in NewTopics(0)} }
  \cup { [op |-> "get_topic", arg |-> m] : m \in {1, 2} }
  \cup { [op |-> "get_all_topics", arg |-> <<>>],
         [op |-> "get_topic_count", arg |-> <<>>],
         [op |-> "search", arg |-> << <<"a">>, 2 >>] }

\* the number of statements in the body of the method, under the lock
BodyLen(k) ==
  CASE k.op = "set_topic" -> 4
    [] k.op = "update_price" -> 3
    [] k.op = "update_from_ws_message" -> 3
    [] k.op = "initialize_topics" -> 2 * Len(k.arg)
    [] OTHER -> 1

\* one field of the topic stored under market_id is assigned
WithField(ts, market_id, field, value) ==
  IF KeyPos(ts, market_id) # 0
    THEN [ts EXCEPT ![KeyPos(ts, market_id)] = [@ EXCEPT ![field] = value]]
    ELSE ts

\* _topics after statement k.pc of the body
StatementTopics(k, ts, max, time) ==
  CASE k.op = "set_topic" ->
         (CASE k.pc = 1 -> IF k.arg.market_id \in Keys(ts)
                             THEN DeleteKey(ts, k.arg.market_id) ELSE ts
            [] k.pc = 2 -> AssignKey(ts, k.arg)
            [] k.pc = 3 -> ts
            [] k.pc = 4 -> EvictIfOver(ts, max))
    [] k.op = "update_price" ->
         (CASE k.pc = 1 ->
                 IF k.arg[2] = 1
                   THEN WithField(ts, k.arg[1], "yes_price", k.arg[3])
                   ELSE IF k.arg[2] = 2
                          THEN WithField(ts, k.arg[1], "no_price", k.arg[3])
                          ELSE ts
            [] k.pc = 2 ->
                 IF k.arg[2] = 1
                   THEN WithField(ts, k.arg[1], "last_price", k.arg[3])
                   ELSE ts
            [] k.pc = 3 -> WithField(ts, k.arg[1], "updated_at", time))
    [] k.op = "update_from_ws_message" ->
         (CASE k.pc = 1 -> WithField(ts, k.arg.market_id, "updated_at", time)
            [] k.pc = 2 ->
                 IF k.arg.msg_type = "market.depth.diff" THEN ts
                 ELSE IF k.arg.outcome_side = 1
                        THEN WithField(ts, k.arg.market_id, "yes_price",
                                       k.arg.price)
                        ELSE IF k.arg.outcome_side = 2
                               THEN WithField(ts, k.arg.market_id, "no_price",
                                              k.arg.price)
                               ELSE ts
            [] k.pc = 3 ->
                 IF k.arg.msg_type # "market.depth.diff"
                    /\ k.arg.outcome_side = 1
                   THEN WithField(ts, k.arg.market_id, "last_price",
                                  k.arg.price)
                   ELSE ts)
    [] k.op = "initialize_topics" ->
         IF k.pc % 2 = 1 THEN AssignKey(ts, k.arg[(k.pc + 1) \div 2]) ELSE ts
    [] OTHER -> ts

\* _search_index after statement k.pc of the body
StatementIndex(k, idx) ==
  CASE k.op = "set_topic" /\ k.pc = 3 -> UpdateSearchIndex(idx, k.arg)
    [] k.op = "initialize_topics" /\ k.pc % 2 = 0 ->
         UpdateSearchIndex(idx, k.arg[k.pc \div 2])
    [] OTHER -> idx

\* what the return statement of the body evaluates to
StatementRet(k, ts) ==
  CASE k.op = "get_topic" ->
         [kind |-> "get_topic",
          topics |-> IF KeyPos(ts, k.arg) # 0
                       THEN <<ts[KeyPos(ts, k.arg)]>> ELSE <<>>,
          count |-> 0]
    [] k.op = "get_all_topics" ->
         [kind |-> "get_all_topics", topics |-> ts, count |-> 0]
    [] k.op = "get_topic_count" ->
         [kind |-> "get_topic_count", topics |-> <<>>, count |-> Len(ts)]
    [] k.op = "search" ->
         [kind |-> "search",
          topics |-> SearchResult(ts, k.arg[1], k.arg[2]), count |-> 0]
    [] OTHER -> NoRet

\* mutant of LockFree: the lock is taken whether it is held or not
LockIgnored(holder) == TRUE

\* asyncio.Lock.acquire returns at once only while the lock is not held
LockFree(holder) == holder = None

\* "async with self._lock:" is entered for the call k
Acquire(c, k) ==
  /\ call[c] = NoCall
  /\ LockFree(lock)
  /\ lock' = c
  /\ call' = [call EXCEPT ![c] =
                [op |-> k.op, arg |-> k.arg, pc |-> 1, entry |-> topics,
                 index |-> search_index]]
  /\ UNCHANGED store_vars
  /\ UNCHANGED consumer_vars

\* the next statement of the body runs
Statement(c) ==
  /\ call[c] # NoCall
  /\ call[c].pc <= BodyLen(call[c])
  /\ topics' = StatementTopics(call[c], topics, max_size, now)
  /\ search_index' = StatementIndex(call[c], search_index)
  /\ ret' = StatementRet(call[c], topics)
  /\ call' = [call EXCEPT ![c].pc = @ + 1]
  /\ UNCHANGED <<max_size, now, snapshot, upserted, lock>>
  /\ UNCHANGED consumer_vars

\* the body is left and the lock released
Release(c) ==
  /\ call[c] # NoCall
  /\ call[c].pc > BodyLen(call[c])
  /\ lock' = None
  /\ call' = [call EXCEPT ![c] = NoCall]
  /\ UNCHANGED store_vars
  /\ UNCHANGED consumer_vars

LockInit ==
  /\ lock = None
  /\ call = [c \in Callers |-> NoCall]

\* ------------------------------------------------------------------ actions

Init ==
  /\ max_size \in 1..MaxSizeBound
  /\ topics = <<>>
  /\ search_index = <<>>
  /\ now = 0
  /\ snapshot = <<>>
  /\ ret = NoRet
  /\ upserted = <<>>
  /\ ConsumerInit
  /\ LockInit

\* time passes between two calls
Tick ==
  /\ now + 1 \in Times
  /\ now' = now + 1
  /\ UNCHANGED <<max_size, topics, search_index, snapshot, ret, upserted>>
  /\ UNCHANGED <<consumer_vars, lock_vars>>

SetTopic(topic) ==
  /\ topics' = SetTopicStore(topics, topic, max_size)
  /\ search_index' = UpdateSearchIndex(search_index, topic)
  /\ snapshot' = Detached(snapshot, topics,
                          {topic.market_id} \cup (Keys(topics) \ Keys(topics')))
  /\ ret' = NoRet
  /\ UNCHANGED <<max_size, now>>
  /\ UNCHANGED <<consumer_vars, lock_vars>>

UpdatePrice(market_id, outcome_side, price) ==
  /\ topics' = UpdatePriceStore(topics, market_id, outcome_side, price, now)
  /\ ret' = NoRet
  /\ UNCHANGED <<max_size, search_index, now, snapshot, upserted>>
  /\ UNCHANGED <<consumer_vars, lock_vars>>

UpdateFromWsMessage(message) ==
  /\ topics' = UpdateFromWsStore(topics, message, now)
  /\ ret' = NoRet
  /\ UNCHANGED <<max_size, search_index, now, snapshot, upserted>>
  /\ UNCHANGED <<consumer_vars, lock_vars>>

InitializeTopics(list) ==
  /\ topics' = InitializeStore(topics, list)
  /\ search_index' = IndexAll(search_index, list)
  /\ snapshot' = Detached(snapshot, topics, Keys(list))
  /\ ret' = NoRet
  /\ UNCHANGED <<max_size, now>>
  /\ UNCHANGED <<consumer_vars, lock_vars>>

GetTopic(market_id) ==
  /\ ret' = [kind |-> "get_topic",
             topics |-> IF KeyPos(topics, market_id) # 0
                          THEN <<topics[KeyPos(topics, market_id)]>>
                          ELSE <<>>,
             count |-> 0]
  /\ topics' = AfterGet(topics, market_id)
  /\ UNCHANGED <<max_size, search_index, now, snapshot, upserted>>
  /\ UNCHANGED <<consumer_vars, lock_vars>>

GetAllTopics ==
  /\ snapshot' = ListOfValues(topics)
  /\ ret' = [kind |-> "get_all_topics", topics |-> topics, count |-> 0]
  /\ UNCHANGED <<max_size, topics, search_index, now, upserted>>
  /\ UNCHANGED <<consumer_vars, lock_vars>>

GetTopicCount ==
  /\ ret' = [kind |-> "get_topic_count", topics |-> <<>>,
             count |-> Len(topics)]
  /\ UNCHANGED <<max_size, topics, search_index, now, snapshot, upserted>>
  /\ UNCHANGED <<consumer_vars, lock_vars>>

Queries == {<<>>, <<"a">>, <<"A", "B">>, <<"c">>}
Limits == {0, 1, 2}

Search(query, limit) ==
  /\ ret' = [kind |-> "search",
             topics |-> SearchResult(topics, query, limit), count |-> 0]
  /\ UNCHANGED <<max_size, topics, search_index, now, snapshot, upserted>>
  /\ UNCHANGED <<consumer_vars, lock_vars>>

InitLists == UNION {[1..n -> NewTopics(now)] : n \in 0..MaxInitLen}

\* ----------------------------------------------------------- inbound frames

\* The text handed to _handle_message.  json says what json.loads makes of it:
\* "invalid" (it raises), "other" (a value that is not an object), "object".
\* Of an object, msgType is the value under "msgType" (None: no such key),
\* lacks is the set of keys that are missing or hold a value of a type the
\* message models reject, and the other fields are the values of the keys
\* that are not in lacks.
FieldNames ==
  {"marketId", "tokenId", "outcomeSide", "side", "price", "size", "shares",
   "amount"}

MsgTypes ==
  {"market.depth.diff", "market.last.price", "market.last.trade", "PONG",
   "market.unknown", None}

NoFrameFields ==
  [json |-> "invalid", msgType |-> None, market_id |-> 1, outcome_side |-> 1, price |-> "0.40",
   shares |-> "10", amount |-> "20", lacks |-> {}]

RawFrames ==
  { [NoFrameFields EXCEPT !.json = j] :
      j \in {"invalid", "other"} }
  \cup
  { [json |-> "object", msgType |-> t, market_id |-> m, outcome_side |-> s,
     price |-> p, shares |-> q[1], amount |-> q[2], lacks |-> l] :
      t \in MsgTypes, m \in MarketIds, s \in OutcomeSides, p \in Prices,
      q \in {<<"10", "20">>}, l \in {{}} \cup {{f} : f \in FieldNames} }

\* mutant of RequiredFields: the models of last price and last trade do not
\* require price
RequiredFieldsButPrice(msg_type) ==
  CASE msg_type = "market.depth.diff" ->
         {"marketId", "tokenId", "outcomeSide", "side", "price", "size"}
    [] msg_type = "market.last.price" ->
         {"marketId", "tokenId", "outcomeSide"}
    [] msg_type = "market.last.trade" ->
         {"marketId", "tokenId", "outcomeSide", "side", "shares", "amount"}

\* the fields without default of DepthDiffMessage, LastPriceMessage and
\* LastTradeMessage (models/websocket.py), msgType apart
RequiredFields(msg_type) ==
  CASE msg_type = "market.depth.diff" ->
         {"marketId", "tokenId", "outcomeSide", "side", "price", "size"}
    [] msg_type = "market.last.price" ->
         {"marketId", "tokenId", "outcomeSide", "price"}
    [] msg_type = "market.last.trade" ->
         {"marketId", "tokenId", "outcomeSide", "side", "price", "shares",
          "amount"}

\* the value of a key of the frame, None when the key is not usable
FrameField(frame, key, value) == IF key \in frame.lacks THEN None ELSE value

\* DepthDiffMessage(**data), LastPriceMessage(**data), LastTradeMessage(**data)
\* on a frame that passed validation
Parsed(frame) ==
  [msg_type |-> frame.msgType,
   market_id |-> FrameField(frame, "marketId", frame.market_id),
   outcome_side |-> FrameField(frame, "outcomeSide", frame.outcome_side),
   price |-> FrameField(frame, "price", frame.price),
   shares |-> IF frame.msgType = "market.last.trade"
                THEN FrameField(frame, "shares", frame.shares) ELSE None,
   amount |-> IF frame.msgType = "market.last.trade"
                THEN FrameField(frame, "amount", frame.amount) ELSE None]

\* the OrderedDict after _handle_message(frame), lines 172-192
HandleMessageStore(ts, frame, time) ==
  IF frame.json # "object"
    THEN ts
    ELSE IF frame.msgType \in {"market.depth.diff", "market.last.price",
                               "market.last.trade"}
           THEN IF RequiredFields(frame.msgType) \cap frame.lacks = {}
                  THEN UpdateFromWsStore(ts, Parsed(frame), time)
                  ELSE ts
           ELSE ts

\* ------------------------------------------------- websocket consumer steps
\*
\* The coroutines start(), stop() and _heartbeat_loop() run on the event loop:
\* one step each from one await to the next.  _ws.run_forever runs on a thread
\* of its own (asyncio.to_thread, line 112) and calls on_open, on_error and
\* on_close there, between any two steps of the event loop.
\*
\* ws is None or the state of the WebSocketApp:
\*   "connecting"  run_forever is running and has not called on_open
\*   "open"        on_open was called, the socket is connected
\*   "closing"     close() closed the socket, run_forever has not yet returned
\*   "closed"      the connection ended: run_forever called on_close and
\*                 returned
\*   "failed"      no connection was made: run_forever called on_error and
\*                 on_close and returned
\*   "raised"      the call of line 112 raised an exception

\* _connect, lines 81-112, up to the await: a new WebSocketApp
NewConnect ==
  /\ attempts < MaxAttempts
  /\ ws' = "connecting"
  /\ sent' = <<>>
  /\ attempts' = attempts + 1
  /\ loop_pc' = "connect"

\* mutant of LoopTest: the loop is left whatever the flag is
LoopTestLeaves(flag) ==
  /\ loop_pc' = "done"
  /\ UNCHANGED <<ws, sent, attempts>>

\* _connect_with_retry, line 67: while self._running, tested with flag
LoopTest(flag) ==
  IF flag
    THEN NewConnect
    ELSE /\ loop_pc' = "done"
         /\ UNCHANGED <<ws, sent, attempts>>

\* start(), lines 50-51, up to the first await
Start ==
  /\ loop_pc = "idle"
  /\ running' = TRUE
  /\ LoopTest(TRUE)
  /\ UNCHANGED <<tasks, reconnect_delay, stop_pc, subscribing, failures>>
  /\ UNCHANGED <<store_vars, lock_vars, stopped_at, displaced_pc, displaced_ws>>

\* on_open on the transport thread, lines 98-101.  asyncio.create_task (line
\* 101) needs the running event loop of the calling thread; the thread of
\* line 112 has none, so it raises RuntimeError before any task exists and
\* the callback ends there.
OnOpen ==
  /\ ws = "connecting"
  /\ ws' = "open"
  /\ running' = TRUE
  /\ UNCHANGED <<tasks, reconnect_delay, loop_pc, stop_pc, sent, subscribing,
                 attempts, failures>>
  /\ UNCHANGED <<store_vars, lock_vars, stopped_at, displaced_pc, displaced_ws>>

\* the connection is lost or was closed: on_close (lines 94-95), then
\* run_forever returns
OnClose ==
  /\ ws \in {"open", "closing"}
  /\ ws' = "closed"
  /\ running' = FALSE
  /\ UNCHANGED <<tasks, reconnect_delay, loop_pc, stop_pc, sent, subscribing,
                 attempts, failures>>
  /\ UNCHANGED <<store_vars, lock_vars, stopped_at, displaced_pc, displaced_ws>>

\* the connection cannot be established: on_error (line 87), on_close (lines
\* 94-95), then run_forever returns
ConnectFails ==
  /\ ws = "connecting"
  /\ ws' = "failed"
  /\ running' = FALSE
  /\ UNCHANGED <<tasks, reconnect_delay, loop_pc, stop_pc, sent, subscribing,
                 attempts, failures>>
  /\ UNCHANGED <<store_vars, lock_vars, stopped_at, displaced_pc, displaced_ws>>

\* the await of line 112 raises (the thread cannot be started, say) and no
\* callback runs
ConnectRaises ==
  /\ ws = "connecting"
  /\ ws' = "raised"
  /\ UNCHANGED <<running, tasks, reconnect_delay, loop_pc, stop_pc, sent,
                 subscribing, attempts, failures>>
  /\ UNCHANGED <<store_vars, lock_vars, stopped_at, displaced_pc, displaced_ws>>

\* mutant of DelayAfterSuccess: the delay is left as the failures made it
DelayKept(delay) == delay

\* line 70
DelayAfterSuccess(delay) == BaseDelay

\* mutant of DelayAfterBackoff: the delay doubles without a cap
DelayDoubled(delay) == delay * 2

\* lines 75-77
DelayAfterBackoff(delay) == Min(delay * 2, MaxReconnectDelay)

\* run_forever has returned: _connect creates the heartbeat task (line 115)
\* and returns, the delay is reset (line 70), the loop tests _running (line 67)
ConnectReturns ==
  /\ loop_pc = "connect"
  /\ ws \in {"closed", "failed"}
  /\ tasks' = Append(tasks, "pending")
  /\ reconnect_delay' = DelayAfterSuccess(reconnect_delay)
  /\ failures' = 0
  /\ LoopTest(running)
  /\ UNCHANGED <<running, stop_pc, subscribing>>
  /\ UNCHANGED <<store_vars, lock_vars, stopped_at, displaced_pc, displaced_ws>>

\* mutant of ConnectRaised: the exception is not caught and ends start()
ConnectRaisedPropagates ==
  /\ loop_pc = "connect"
  /\ ws = "raised"
  /\ loop_pc' = "raised"
  /\ UNCHANGED <<running, ws, tasks, reconnect_delay, stop_pc, sent,
                 subscribing, attempts, failures>>
  /\ UNCHANGED <<store_vars, lock_vars, stopped_at, displaced_pc, displaced_ws>>

\* _connect raised: lines 71-74, up to the sleep when _running holds, else
\* back to the loop test
ConnectRaised ==
  /\ loop_pc = "connect"
  /\ ws = "raised"
  /\ IF running
       THEN /\ loop_pc' = "sleep"
            /\ failures' = failures + 1
       ELSE /\ loop_pc' = "done"
            /\ UNCHANGED failures
  /\ UNCHANGED <<running, ws, tasks, reconnect_delay, stop_pc, sent,
                 subscribing, attempts>>
  /\ UNCHANGED <<store_vars, lock_vars, stopped_at, displaced_pc, displaced_ws>>

\* the sleep of line 74 is over: lines 75-77, then the loop test
BackoffOver ==
  /\ loop_pc = "sleep"
  /\ reconnect_delay' = DelayAfterBackoff(reconnect_delay)
  /\ LoopTest(running)
  /\ UNCHANGED <<running, tasks, stop_pc, subscribing, failures>>
  /\ UNCHANGED <<store_vars, lock_vars, stopped_at, displaced_pc, displaced_ws>>

\* a task that has not finished
Alive(task) == task \in {"pending", "sleeping"}

\* mutant of StopFlag: stop() leaves _running as it is
StopFlagKept(flag) == flag

\* line 55
StopFlag(flag) == FALSE

\* stop(), lines 55-61, up to the await of the heartbeat task: the task is
\* cancelled and runs no further statement of its loop.  The owner stops a
\* consumer it has started (main.py, lines 43 and 55).
StopCalled ==
  /\ stop_pc = "idle"
  /\ loop_pc # "idle"
  /\ running' = StopFlag(running)
  /\ ws' = IF ws = "open" THEN "closing" ELSE ws
  /\ IF tasks # <<>> /\ Alive(tasks[Len(tasks)])
       THEN /\ tasks' = [tasks EXCEPT ![Len(tasks)] = "cancelled"]
            /\ stop_pc' = "await"
       ELSE /\ stop_pc' = "done"
            /\ UNCHANGED tasks
  /\ stopped_at' = ws
  /\ UNCHANGED <<reconnect_delay, loop_pc, sent, subscribing, attempts,
                 failures>>
  /\ UNCHANGED <<store_vars, lock_vars, displaced_pc, displaced_ws>>

\* stop(), lines 61-63: the cancelled task has ended and stop() returns
StopReturns ==
  /\ stop_pc = "await"
  /\ stop_pc' = "done"
  /\ UNCHANGED <<running, ws, tasks, reconnect_delay, loop_pc, sent,
                 subscribing, attempts, failures>>
  /\ UNCHANGED <<store_vars, lock_vars, stopped_at, displaced_pc, displaced_ws>>

\* one round of _heartbeat_loop in task i, lines 162-168: the test, and when
\* it holds the send, which raises unless the socket is connected
Heartbeat(i) ==
  /\ Alive(tasks[i])
  /\ IF running /\ ws # None
       THEN IF ws = "open"
              THEN /\ Len(sent) < MaxSent
                   /\ sent' = Append(sent, HeartbeatFrame)
                   /\ tasks' = [tasks EXCEPT ![i] = "sleeping"]
              ELSE /\ tasks' = [tasks EXCEPT ![i] = "done"]
                   /\ UNCHANGED sent
       ELSE /\ tasks' = [tasks EXCEPT ![i] = "done"]
            /\ UNCHANGED sent
  /\ UNCHANGED <<running, ws, reconnect_delay, loop_pc, stop_pc, subscribing,
                 attempts, failures>>
  /\ UNCHANGED <<store_vars, lock_vars, stopped_at, displaced_pc, displaced_ws>>

DoHeartbeat == \E i \in 1..Len(tasks) : Heartbeat(i)

\* _subscribe_market(market_id, outcome_type), lines 125-158: nothing without
\* a WebSocketApp; the first send raises unless the socket is connected
SubscribeMarket(market_id, outcome_type) ==
  /\ IF ws = "open"
       THEN /\ Len(sent) + Len(MarketFrames(market_id, outcome_type)) <= MaxSent
            /\ sent' = sent \o MarketFrames(market_id, outcome_type)
       ELSE UNCHANGED sent
  /\ UNCHANGED <<running, ws, tasks, reconnect_delay, loop_pc, stop_pc,
                 subscribing, attempts, failures>>
  /\ UNCHANGED <<store_vars, lock_vars, stopped_at, displaced_pc, displaced_ws>>

OutcomeTypes == {"binary", "scalar", "categorical"}

DoSubscribeMarket ==
  \E m \in MarketIds, ot \in OutcomeTypes : SubscribeMarket(m, ot)

\* _subscribe_all_markets(), lines 119-121, run on the event loop
SubscribeAllMarkets ==
  /\ IF ws = "open"
       THEN /\ Len(sent) + Len(AllMarketFrames(topics)) <= MaxSent
            /\ sent' = sent \o AllMarketFrames(topics)
       ELSE UNCHANGED sent
  /\ UNCHANGED <<running, ws, tasks, reconnect_delay, loop_pc, stop_pc,
                 subscribing, attempts, failures>>
  /\ UNCHANGED <<store_vars, lock_vars, stopped_at, displaced_pc, displaced_ws>>

\* get_status()["connected"], lines 44-46 and 197
IsConnected == ws # None /\ running

\* the status field of the /health response (api/v1/health.py, line 19)
HealthStatus == IF IsConnected THEN "healthy" ELSE "degraded"

\* --------------------------------------------- start() called a second time
\*
\* start() does not look at whether a retry loop is running (lines 50-51): a
\* second call runs a retry loop of its own on the same object.  Whenever one
\* of the two coroutines calls _connect, _ws refers to its new WebSocketApp;
\* the other coroutine is then the displaced one: it still waits for the
\* run_forever of its own WebSocketApp (displaced_ws), or sleeps.

\* _connect called by a coroutine other than the one _ws belongs to
ConnectDisplacing ==
  /\ displaced_pc' = loop_pc
  /\ displaced_ws' = ws
  /\ NewConnect

\* line 67 in the displaced coroutine
DisplacedLoopTest(flag) ==
  IF flag
    THEN ConnectDisplacing
    ELSE /\ displaced_pc' = "done"
         /\ UNCHANGED <<ws, sent, attempts, loop_pc, displaced_ws>>

\* start() while the retry loop of an earlier start() is running
StartAgain ==
  /\ loop_pc \in {"connect", "sleep"}
  /\ displaced_pc = "none"
  /\ running' = TRUE
  /\ ConnectDisplacing
  /\ UNCHANGED <<tasks, reconnect_delay, stop_pc, subscribing, stopped_at,
                 failures>>
  /\ UNCHANGED <<store_vars, lock_vars>>

\* on_open of the displaced WebSocketApp (lines 98-101)
DisplacedOnOpen ==
  /\ displaced_pc = "connect"
  /\ displaced_ws = "connecting"
  /\ displaced_ws' = "open"
  /\ running' = TRUE
  /\ UNCHANGED <<ws, tasks, reconnect_delay, loop_pc, stop_pc, sent,
                 subscribing, attempts, stopped_at, displaced_pc, failures>>
  /\ UNCHANGED <<store_vars, lock_vars>>

\* on_close of the displaced WebSocketApp (lines 94-95), after a connection
\* or after a failure to connect; run_forever returns
DisplacedOnClose ==
  /\ displaced_pc = "connect"
  /\ displaced_ws \in {"connecting", "open", "closing"}
  /\ displaced_ws' = IF displaced_ws = "connecting" THEN "failed" ELSE "closed"
  /\ running' = FALSE
  /\ UNCHANGED <<ws, tasks, reconnect_delay, loop_pc, stop_pc, sent,
                 subscribing, attempts, stopped_at, displaced_pc, failures>>
  /\ UNCHANGED <<store_vars, lock_vars>>

\* the await of line 112 raises in the displaced coroutine
DisplacedRaises ==
  /\ displaced_pc = "connect"
  /\ displaced_ws = "connecting"
  /\ displaced_ws' = "raised"
  /\ UNCHANGED <<running, ws, tasks, reconnect_delay, loop_pc, stop_pc, sent,
                 subscribing, attempts, stopped_at, displaced_pc, failures>>
  /\ UNCHANGED <<store_vars, lock_vars>>

\* lines 115, 70 and 67 in the displaced coroutine
DisplacedReturns ==
  /\ displaced_pc = "connect"
  /\ displaced_ws \in {"closed", "failed"}
  /\ tasks' = Append(tasks, "pending")
  /\ reconnect_delay' = DelayAfterSuccess(reconnect_delay)
  /\ failures' = 0
  /\ DisplacedLoopTest(running)
  /\ UNCHANGED <<running, stop_pc, subscribing, stopped_at>>
  /\ UNCHANGED <<store_vars, lock_vars>>

\* lines 71-74 in the displaced coroutine
DisplacedRaised ==
  /\ displaced_pc = "connect"
  /\ displaced_ws = "raised"
  /\ IF running
       THEN /\ displaced_pc' = "sleep"
            /\ failures' = failures + 1
       ELSE /\ displaced_pc' = "done"
            /\ UNCHANGED failures
  /\ UNCHANGED <<running, ws, tasks, reconnect_delay, loop_pc, stop_pc, sent,
                 subscribing, attempts, stopped_at, displaced_ws>>
  /\ UNCHANGED <<store_vars, lock_vars>>

\* lines 75-77 and 67 in the displaced coroutine
DisplacedBackoffOver ==
  /\ displaced_pc = "sleep"
  /\ reconnect_delay' = DelayAfterBackoff(reconnect_delay)
  /\ DisplacedLoopTest(running)
  /\ UNCHANGED <<running, tasks, stop_pc, subscribing, stopped_at, failures>>
  /\ UNCHANGED <<store_vars, lock_vars>>

\* _handle_message(frame) run on the event loop
HandleMessage(frame) ==
  /\ topics' = HandleMessageStore(topics, frame, now)
  /\ ret' = NoRet
  /\ UNCHANGED <<max_size, search_index, now, snapshot, upserted>>
  /\ UNCHANGED <<consumer_vars, lock_vars>>

\* the frames that arrive: every kind of text, and of the objects those
\* that are complete or lack the price, at one price
ArrivingFrames ==
  {frame \in RawFrames :
     frame.lacks \in {{}, {"price"}} /\ frame.price = "0.55"}

DoHandleMessage == \E frame \in ArrivingFrames : HandleMessage(frame)

\* ----------------------------------------------------------- specifications

\* the history with market_id as the most recent set_topic call
Touched(history, market_id) ==
  Append(SelectSeq(history, LAMBDA k : k # market_id), market_id)

\* set_topic, the call recorded in the history
DoUpsert ==
  \E topic \in NewTopics(now) :
    SetTopic(topic) /\ upserted' = Touched(upserted, topic.market_id)
DoSetTopic ==
  \E topic \in NewTopics(now) : SetTopic(topic) /\ UNCHANGED upserted
DoUpdatePrice ==
  \E m \in MarketIds, s \in OutcomeSides, p \in Prices : UpdatePrice(m, s, p)
DoUpdateFromWsMessage == \E message \in WsMessages : UpdateFromWsMessage(message)
DoInitializeTopics ==
  \E list \in InitLists : InitializeTopics(list) /\ UNCHANGED upserted
DoGetTopic == \E m \in MarketIds : GetTopic(m)
DoSearch == \E q \in Queries, l \in Limits : Search(q, l)

\* the store under upserts alone
NextUpsert == DoUpsert \/ Tick
SpecUpsert == Init /\ [][NextUpsert]_vars

\* the store under every call that writes to it
Next ==
  \/ DoSetTopic
  \/ DoUpdatePrice
  \/ DoUpdateFromWsMessage
  \/ Tick
Spec == Init /\ [][Next]_vars

\* the store under every call that writes to it, bulk load included, all
\* within one reading of the clock
NextBulk ==
  \/ DoSetTopic
  \/ DoUpdatePrice
  \/ DoUpdateFromWsMessage
  \/ DoInitializeTopics
SpecBulk == Init /\ [][NextBulk]_vars

\* the store under the calls that write the index, and a call that writes
\* topics in place
NextIndex ==
  \/ DoSetTopic
  \/ DoInitializeTopics
  \/ DoUpdatePrice
SpecIndex == Init /\ [][NextIndex]_vars

\* upserts and the calls that read the store
NextReads ==
  \/ DoSetTopic
  \/ DoGetTopic
  \/ GetAllTopics
  \/ GetTopicCount
  \/ DoSearch
SpecReads == Init /\ [][NextReads]_vars

\* a caller keeps the list get_all_topics returned while a store built with
\* max_size = 1 goes on being written
NextSnapshot ==
  \/ DoSetTopic
  \/ DoUpdatePrice
  \/ DoUpdateFromWsMessage
  \/ GetAllTopics
InitSnapshot == Init /\ max_size = 1
SpecSnapshot == InitSnapshot /\ [][NextSnapshot]_vars

\* the store called by coroutines that may be suspended and resumed at
\* every statement
DoAcquire == \E c \in Callers, k \in StoreCalls : Acquire(c, k)
DoStatement == \E c \in Callers : Statement(c)
DoRelease == \E c \in Callers : Release(c)
NextLocked ==
  \/ DoAcquire
  \/ DoStatement
  \/ DoRelease
SpecLocked == Init /\ [][NextLocked]_vars

\* the consumer from start() on, with stop() called at any time
NextConsumer ==
  \/ Start
  \/ OnOpen
  \/ OnClose
  \/ ConnectFails
  \/ ConnectRaises
  \/ ConnectReturns
  \/ ConnectRaised
  \/ BackoffOver
  \/ StopCalled
  \/ StopReturns
  \/ DoHeartbeat
SpecConsumer == Init /\ [][NextConsumer]_vars

\* the consumer when start() is called again while its retry loop runs
NextRestart ==
  \/ Start
  \/ StartAgain
  \/ OnOpen
  \/ OnClose
  \/ ConnectFails
  \/ ConnectRaises
  \/ ConnectReturns
  \/ ConnectRaised
  \/ BackoffOver
  \/ DisplacedOnOpen
  \/ DisplacedOnClose
  \/ DisplacedRaises
  \/ DisplacedReturns
  \/ DisplacedRaised
  \/ DisplacedBackoffOver
  \/ StopCalled
  \/ StopReturns
  \/ DoHeartbeat
SpecRestart == Init /\ [][NextRestart]_vars

\* the store under upserts and inbound frames
NextRouter ==
  \/ DoSetTopic
  \/ DoHandleMessage
  \/ Tick
SpecRouter == Init /\ [][NextRouter]_vars

\* subscriptions sent through the connection while the store is filled
NextSubscribe ==
  \/ DoSetTopic
  \/ Start
  \/ OnOpen
  \/ OnClose
  \/ DoSubscribeMarket
  \/ SubscribeAllMarkets
SpecSubscribe == Init /\ [][NextSubscribe]_vars

\* ------------------------------------------------------------------ claims

\* the keys of the store, in store order
KeySeq(ts) == [i \in 1..Len(ts) |-> ts[i].market_id]

\* the stored keys in the order of their most recent set_topic call
StoredByRecency == SelectSeq(upserted, LAMBDA k : k \in Keys(topics))

\* C1: from an empty store with max_size >= 1, after any sequence of set_topic
\* calls the store holds at most max_size topics.
C1_UpsertsKeepSizeBound == Len(topics) <= max_size

\* more market ids have been upserted than the store may hold, and it is full
C1_Witness == Len(upserted) > max_size /\ Len(topics) = max_size

\* C2: in every state reached by initialize_topics, set_topic, update_price
\* and update_from_ws_message calls the store size is at most max_size.
C2_StoreNeverExceedsMaxSize == Cardinality(Keys(topics)) <= max_size

\* C3: when set_topic inserts a new market_id into a store holding max_size
\* topics, exactly one topic leaves the store, it is the stored topic whose
\* most recent set_topic call is the oldest, and every other stored topic
\* remains as it was.
C3_EvictsLeastRecentlyUpserted ==
  [][\A topic \in NewTopics(now) :
       (/\ SetTopic(topic)
        /\ topic.market_id \notin Keys(topics)
        /\ Len(topics) = max_size)
       => LET victim == Head(StoredByRecency)
          IN /\ Keys(topics') =
                  (Keys(topics) \ {victim}) \cup {topic.market_id}
             /\ Len(topics') = max_size
             /\ \A i \in 1..Len(topics) :
                  topics[i].market_id # victim
                    => \E j \in 1..Len(topics') : topics'[j] = topics[i]]_vars

\* max_size = 2, upserts of markets 1, 2, 3: exactly 2 and 3 are left
C3_Witness ==
  /\ max_size = 2
  /\ upserted = <<1, 2, 3>>
  /\ KeySeq(topics) = <<2, 3>>

\* C4: set_topic on a stored market_id moves the entry to the most recently
\* used end and leaves the size as it was; the store order is the order of
\* the most recent set_topic calls, so the entry is evicted after every entry
\* upserted before it.
C4_ReupsertRefreshesRecency ==
  /\ [](KeySeq(topics) = StoredByRecency)
  /\ [][\A topic \in NewTopics(now) :
          (SetTopic(topic) /\ topic.market_id \in Keys(topics))
          => /\ Len(topics') = Len(topics)
             /\ topics'[Len(topics')] = topic
             /\ SubSeq(topics', 1, Len(topics') - 1) =
                  DeleteKey(topics, topic.market_id)]_vars

\* max_size = 2: market 1 was upserted in both of its versions, market 2 before
\* the later one and market 3 after it; 2 was evicted and 1 kept
C4_Witness ==
  /\ max_size = 2
  /\ upserted = <<2, 1, 3>>
  /\ KeySeq(topics) = <<1, 3>>
  /\ topics[1].question = <<"b", " ", "a">>
  /\ <<"a", "b">> \in DOMAIN search_index
  /\ 1 \in search_index[<<"a", "b">>]

ReadKinds == {"get_topic", "get_all_topics", "get_topic_count", "search"}

\* C5: get_topic, get_all_topics, get_topic_count and search leave the keys,
\* their order, every topic's fields and the keyword index as they were.
C5_ReadsLeaveStoreUnchanged ==
  [][ret'.kind \in ReadKinds => UNCHANGED <<topics, search_index>>]_vars

\* get_topic returned the oldest of two stored topics
C5_Witness ==
  /\ ret.kind = "get_topic"
  /\ Len(topics) = 2
  /\ ret.topics = <<topics[1]>>

\* C6: update_price and update_from_ws_message for a market_id that is not in
\* the store leave the store's size, key order and topics as they are; they
\* create no entry.
C6_AbsentMarketUpdateIsNoOp ==
  /\ \A m \in MarketIds \ Keys(topics), s \in OutcomeSides, p \in Prices :
       UpdatePriceStore(topics, m, s, p, now) = topics
  /\ \A message \in WsMessages :
       message.market_id \notin Keys(topics)
         => UpdateFromWsStore(topics, message, now) = topics

\* two stored topics, the older one priced by an update before the clock
\* moved on, and a third market that is not stored
C6_Witness ==
  /\ Len(topics) = 2
  /\ MarketIds \ Keys(topics) # {}
  /\ topics[1].question = <<"A", "b">>
  /\ topics[1].yes_price \in Prices
  /\ topics[1].updated_at < now

\* the topics of `after` other than the one under market_id are those of
\* `before`, in the same places
OthersUntouched(before, after, market_id) ==
  /\ KeySeq(after) = KeySeq(before)
  /\ \A i \in 1..Len(before) :
       before[i].market_id # market_id => after[i] = before[i]

\* the Yes side took the price: yes_price and last_price are set, no_price kept
YesPriced(before, after, m, p) ==
  LET old == before[KeyPos(before, m)]
      new == after[KeyPos(before, m)]
  IN /\ new.yes_price = p
     /\ new.last_price = p
     /\ new.no_price = old.no_price
     /\ OthersUntouched(before, after, m)

\* the No side took the price: no_price is set, yes_price and last_price kept
NoPriced(before, after, m, p) ==
  LET old == before[KeyPos(before, m)]
      new == after[KeyPos(before, m)]
  IN /\ new.no_price = p
     /\ new.yes_price = old.yes_price
     /\ new.last_price = old.last_price
     /\ OthersUntouched(before, after, m)

\* C7: on a stored market_id, a last-price update with outcome_side 1 sets
\* yes_price and last_price to the price and leaves no_price; with
\* outcome_side 2 it sets no_price and leaves yes_price and last_price; no
\* other topic changes.
C7_LastPriceUpdateSetsSideFields ==
  \A m \in Keys(topics), p \in Prices :
    /\ YesPriced(topics, UpdatePriceStore(topics, m, 1, p, now), m, p)
    /\ YesPriced(topics,
                 UpdateFromWsStore(topics, LastPriceMessage(m, 1, p), now),
                 m, p)
    /\ NoPriced(topics, UpdatePriceStore(topics, m, 2, p, now), m, p)
    /\ NoPriced(topics,
                UpdateFromWsStore(topics, LastPriceMessage(m, 2, p), now),
                m, p)

\* the second version of market 1, built with distinct prices, stored with
\* another topic and given a Yes update at 0.40 and a No update at 0.55
C7_Witness ==
  \E i \in 1..Len(topics) :
    /\ Len(topics) = 2
    /\ topics[i].question = <<"b", " ", "a">>
    /\ topics[i].yes_price = "0.40"
    /\ topics[i].last_price = "0.40"
    /\ topics[i].no_price = "0.55"

\* C8: a price or trade update on a stored market_id whose outcome_side is
\* neither 1 nor 2 changes no field of the topic, updated_at included.
C8_OtherSidesAreIgnored ==
  \A m \in Keys(topics), s \in OutcomeSides \ {1, 2}, p \in Prices :
    /\ UpdatePriceStore(topics, m, s, p, now) = topics
    /\ UpdateFromWsStore(topics, LastPriceMessage(m, s, p), now) = topics
    /\ \A q \in TradeSizes :
         UpdateFromWsStore(topics, LastTradeMessage(m, s, p, q[1], q[2]), now)
           = topics

PriceFields(ts) ==
  [i \in 1..Len(ts) |->
     [market_id |-> ts[i].market_id, yes_price |-> ts[i].yes_price,
      no_price |-> ts[i].no_price, last_price |-> ts[i].last_price]]

Volumes(ts) == [i \in 1..Len(ts) |-> ts[i].volume]

C10_SnapshotIsFrozen ==
  [][GetAllTopics \/ SnapshotView' = SnapshotView]_vars

\* s has t as a contiguous run of characters, whatever the letter case
HasFolded(s, t) ==
  \E i \in 1..(Len(s) + 1), j \in 0..Len(s) :
    Lower(SubSeq(s, i, j)) = Lower(t)

\* the topics of ts a search for query is about, in store order
Hits(ts, query) ==
  SelectSeq(ts, LAMBDA topic :
    \/ HasFolded(topic.question, query)
    \/ (topic.description # <<>> /\ HasFolded(topic.description, query))
    \/ \E i \in 1..Len(topic.categories) :
         HasFolded(topic.categories[i], query))

\* C11: for limit >= 1, search(query, limit) returns the first
\* min(limit, number of matches) topics, in store order, among those whose
\* question, description (when present) or one of whose categories has the
\* query as a substring, letter case ignored; the keyword index plays no part.
C11_SearchReturnsFirstMatches ==
  \A query \in Queries, limit \in Limits \ {0} :
    SearchResult(topics, query, limit) =
      SubSeq(Hits(topics, query), 1, Min(limit, Len(Hits(topics, query))))

\* a search skipped the older of two stored topics, which does not match, and
\* returned the newer one, which matches through a category in another case,
\* while the index still lists an evicted market
C11_Witness ==
  /\ ret.kind = "search"
  /\ KeySeq(topics) = <<2, 3>>
  /\ ret.topics = <<topics[2]>>
  /\ <<"a", "b">> \in DOMAIN search_index
  /\ 1 \in search_index[<<"a", "b">>]

\* C12: for every store, query and limit, limit = 0 included, search returns
\* at most limit topics.
C12_SearchReturnsAtMostLimit ==
  \A query \in Queries, limit \in Limits :
    Len(SearchResult(topics, query, limit)) <= limit

\* the frame {"action": "SUBSCRIBE", "channel": channel, "marketId": m}
MarketIdFrame(channel, m) ==
  [action |-> "SUBSCRIBE", channel |-> channel, marketId |-> m]

\* the frame {"action": "SUBSCRIBE", "channel": channel, "rootMarketId": m}
RootMarketIdFrame(channel, m) ==
  [action |-> "SUBSCRIBE", channel |-> channel, rootMarketId |-> m]

\* C13: with an open connection, subscribing a categorical topic sends exactly
\* one SUBSCRIBE frame, channel market.last.price with rootMarketId = market_id
\* and no marketId; any other outcome_type sends exactly three SUBSCRIBE
\* frames with marketId = market_id and no rootMarketId, on the channels
\* market.last.price, market.depth.diff, market.last.trade in this order.
C13_SubscribeFramesByOutcomeType ==
  [][\A m \in MarketIds, ot \in OutcomeTypes :
       (SubscribeMarket(m, ot) /\ ws = "open")
       => sent' = sent \o
            (IF ot = "categorical"
               THEN << RootMarketIdFrame("market.last.price", m) >>
               ELSE << MarketIdFrame("market.last.price", m),
                       MarketIdFrame("market.depth.diff", m),
                       MarketIdFrame("market.last.trade", m) >>)]_vars

\* market 2 was subscribed as categorical and then market 3 as another type
C13_Witness ==
  /\ ws = "open"
  /\ Len(sent) = 4
  /\ DOMAIN sent[1] = {"action", "channel", "rootMarketId"}
  /\ sent[1].rootMarketId = 2
  /\ \A i \in 2..4 : DOMAIN sent[i] = {"action", "channel", "marketId"}
                        /\ sent[i].marketId = 3

\* C14: each on_open, on the first connection and on every later one, makes
\* the consumer read the topics stored at that time and send the subscribe
\* frames of every one of them through the new connection, in store order.
C14_OnOpenSubscribesStoredTopics ==
  [][(ws = "connecting" /\ ws' = "open" /\ topics # <<>>)
       => \/ subscribing'
          \/ sent' = sent \o AllMarketFrames(topics)]_vars

\* min(base * 2^k, cap) with base = 5 and cap = 60 seconds
BackoffAfter(k) == Min(5 * 2^k, 60)

C16_RetryLoopEndsOnlyByStop == loop_pc = "done" => stop_pc # "idle"

\* stop() was called while the connection was established, and has returned
StoppedWhileConnected == stop_pc = "done" /\ stopped_at = "open"

\* C17: when stop() is called after on_open, from its return on
\* get_status()["connected"] is false and _connect is not called again.
C17_StopWhileConnectedIsFinal ==
  /\ [](StoppedWhileConnected => ~IsConnected)
  /\ [][StoppedWhileConnected => attempts' = attempts]_vars

\* stop() was called on an established connection; the connection has ended
\* and the retry loop with it
C17_Witness ==
  /\ StoppedWhileConnected
  /\ ws = "closed"
  /\ loop_pc = "done"
  /\ tasks # <<>>

\* C18: whenever stop() is called (while connecting, during the backoff sleep,
\* around on_open and on_close), after its return the consumer is not
\* connected, _running stays false and no connection attempt starts.
C18_StopIsFinalInEveryState ==
  /\ [](stop_pc = "done" => (~running /\ ~IsConnected))
  /\ [][stop_pc = "done" => attempts' = attempts]_vars

\* C19: once stop() has returned no heartbeat task is unfinished, none that
\* is created later either, and no HEARTBEAT frame is sent.
C19_HeartbeatOverWhenStopReturns ==
  /\ [](stop_pc = "done" => \A i \in 1..Len(tasks) : ~Alive(tasks[i]))
  /\ [][stop_pc = "done"
          => ~(Len(sent') > Len(sent)
               /\ sent'[Len(sent')] = HeartbeatFrame)]_vars

\* C20: the heartbeat task of a connection is started while the connection is
\* open, sends a HEARTBEAT frame every heartbeat_interval seconds while the
\* consumer stays connected, and stops when the connection ends; so a
\* connection that was established and has ended had its heartbeat task.
C20_HeartbeatStartsWhileOpen ==
  ws \in {"closing", "closed"} => tasks # <<>>

\* C21: get_status()["connected"] is true, and the health status healthy,
\* only while the connection is established; never started, connecting before
\* on_open, sleeping after a failure or stopped, connected is false and the
\* health status is degraded.
C21_ConnectedOnlyWhileEstablished ==
  ws # "open" => (~IsConnected /\ HealthStatus = "degraded")

\* run_forever of a WebSocketApp in state w is running
InProgress(w) == w \in {"connecting", "open", "closing"}

\* C22: a second start() while the retry loop is active starts no second
\* retry loop and no second connection: at most one retry loop is running and
\* at most one connection attempt is in progress at any time.
C22_SecondStartIsIdempotent ==
  /\ ~(loop_pc \in {"connect", "sleep"} /\ displaced_pc \in {"connect", "sleep"})
  /\ ~(InProgress(ws) /\ displaced_pc = "connect" /\ InProgress(displaced_ws))

\* what a heartbeat round leaves alone
BesidesHeartbeat ==
  <<running, ws, reconnect_delay, loop_pc, stop_pc, displaced_pc,
    displaced_ws, attempts, sent, store_vars>>

\* C23: start() never ends with an exception: an exception raised by a
\* connection attempt is caught by the retry loop, which sleeps the backoff
\* delay and connects again while _running holds (and ends normally when it
\* does not); an exception raised by the send of a heartbeat ends that
\* heartbeat task and nothing else.
C23_TransportErrorsAreContained ==
  /\ [](/\ loop_pc \in {"idle", "connect", "sleep", "done"}
        /\ displaced_pc \in {"none", "connect", "sleep", "done"})
  /\ [][(loop_pc = "connect" /\ ws = "raised" /\ loop_pc' # loop_pc)
          => loop_pc' = (IF running THEN "sleep" ELSE "done")]_vars
  /\ [][(displaced_pc = "connect" /\ displaced_ws = "raised"
            /\ displaced_pc' # displaced_pc)
          => displaced_pc' = (IF running THEN "sleep" ELSE "done")]_vars
  /\ [][(loop_pc = "sleep" /\ loop_pc' # loop_pc /\ displaced_pc' = displaced_pc)
          => IF running
               THEN loop_pc' = "connect" /\ attempts' = attempts + 1
                    /\ ws' = "connecting"
               ELSE loop_pc' = "done" /\ attempts' = attempts]_vars
  /\ [][(displaced_pc = "sleep" /\ displaced_pc' # displaced_pc)
          => IF running
               THEN loop_pc' = "connect" /\ attempts' = attempts + 1
                    /\ ws' = "connecting" /\ displaced_pc' = loop_pc
               ELSE displaced_pc' = "done" /\ attempts' = attempts]_vars
  /\ [][\A i \in 1..Len(tasks) :
          (Alive(tasks[i]) /\ Len(tasks') = Len(tasks) /\ tasks'[i] = "done"
             /\ running /\ ws # "open")
          => /\ UNCHANGED BesidesHeartbeat
             /\ \A j \in 1..Len(tasks) : j # i => tasks'[j] = tasks[j]]_vars

\* the send of a heartbeat raised on a WebSocketApp that was still
\* connecting and ended its task; the attempt then raised, the loop slept
\* and has connected again
C23_Witness ==
  /\ loop_pc = "connect"
  /\ ws = "connecting"
  /\ running
  /\ failures = 1
  /\ reconnect_delay = 10
  /\ tasks = <<"done">>

\* the frame is a JSON object of kind msg_type that has every field of keys
FrameOfKind(frame, msg_type, keys) ==
  /\ frame.json = "object"
  /\ frame.msgType = msg_type
  /\ \A k \in keys : k \notin frame.lacks

ValidDepthDiff(frame) ==
  FrameOfKind(frame, "market.depth.diff",
              {"marketId", "tokenId", "outcomeSide", "side", "price", "size"})

ValidLastPrice(frame) ==
  FrameOfKind(frame, "market.last.price",
              {"marketId", "tokenId", "outcomeSide", "price"})

ValidLastTrade(frame) ==
  FrameOfKind(frame, "market.last.trade",
              {"marketId", "tokenId", "outcomeSide", "side", "price",
               "shares", "amount"})

\* C24: handling a frame that is not valid JSON, lacks a required field of
\* its kind, is a PONG or has an unknown msgType leaves the store exactly as
\* it was; a valid depth-diff frame changes no yes_price, no_price or
\* last_price; a price field changes only by a valid last-price or
\* last-trade frame.
C24_BadFramesAreDropped ==
  \A frame \in RawFrames :
    LET after == HandleMessageStore(topics, frame, now)
    IN /\ (~ValidDepthDiff(frame) /\ ~ValidLastPrice(frame)
            /\ ~ValidLastTrade(frame)) => after = topics
       /\ ValidDepthDiff(frame) => PriceFields(after) = PriceFields(topics)
       /\ PriceFields(after) # PriceFields(topics)
            => (ValidLastPrice(frame) \/ ValidLastTrade(frame))

\* two stored topics; the first version of market 1, built without prices,
\* has got a Yes and a No price from frames before the clock moved on
C24_Witness ==
  /\ Len(topics) = 2
  /\ \E i \in 1..2 :
       /\ topics[i].question = <<"A", "b">>
       /\ topics[i].yes_price = "0.55"
       /\ topics[i].last_price = "0.55"
       /\ topics[i].no_price = "0.55"
       /\ topics[i].updated_at < now

\* the caller is inside a store method
Inside(c) == call[c] # NoCall

\* _topics after the whole method ran on the store ts without interruption
WholeCallTopics(k, ts, max, time) ==
  CASE k.op = "set_topic" -> SetTopicStore(ts, k.arg, max)
    [] k.op = "update_price" ->
         UpdatePriceStore(ts, k.arg[1], k.arg[2], k.arg[3], time)
    [] k.op = "update_from_ws_message" -> UpdateFromWsStore(ts, k.arg, time)
    [] k.op = "initialize_topics" -> InitializeStore(ts, k.arg)
    [] OTHER -> ts

\* _search_index after the whole method ran without interruption
WholeCallIndex(k, idx) ==
  CASE k.op = "set_topic" -> UpdateSearchIndex(idx, k.arg)
    [] k.op = "initialize_topics" -> IndexAll(idx, k.arg)
    [] OTHER -> idx

\* C25: every store method runs under the one lock: at most one caller is
\* inside the store, the caller inside holds the lock, it finds the store
\* as the last finished call left it (nothing is half done when it enters),
\* and when it leaves, store and index are what the whole method makes of
\* the store it entered.
C25_StoreCallsAreMutuallyExclusive ==
  /\ Cardinality({c \in Callers : Inside(c)}) <= 1
  /\ \A c \in Callers :
       Inside(c) =>
         /\ lock = c
         /\ call[c].pc = 1 =>
              (topics = call[c].entry /\ search_index = call[c].index)
         /\ call[c].pc > BodyLen(call[c]) =>
              /\ topics = WholeCallTopics(call[c], call[c].entry, max_size, now)
              /\ search_index = WholeCallIndex(call[c], call[c].index)

\* set_topic has inserted into a full store and not yet evicted: the store
\* holds max_size + 1 topics, and the other caller is outside
C25_Witness ==
  /\ lock = "query"
  /\ call["query"].op = "set_topic"
  /\ call["query"].pc = 4
  /\ Len(topics) = max_size + 1
  /\ ~Inside("handler")

\* C26: a price update of a stored topic counts as a touch: after
\* update_price or a last-price message for a stored market, that market's
\* entry is the newest of the store, and the next set_topic of a new market
\* into the full store, which holds an entry touched less recently, does not
\* evict it.
C26_PriceUpdateCountsAsTouch ==
  \A m \in Keys(topics), s \in {1, 2}, p \in Prices :
    \A store \in {UpdatePriceStore(topics, m, s, p, now),
                  UpdateFromWsStore(topics, LastPriceMessage(m, s, p), now)} :
      /\ store[Len(store)].market_id = m
      /\ \A topic \in NewTopics(now) :
           (topic.market_id \notin Keys(store) /\ Len(store) >= 2)
             => m \in Keys(SetTopicStore(store, topic, max_size))

\* complete last-price and last-trade frames
PriceFrames ==
  {frame \in RawFrames :
     frame.lacks = {} /\ (ValidLastPrice(frame) \/ ValidLastTrade(frame))}

\* C27: for every store and every two valid last-price/last-trade frames,
\* the price fields of the store are the same whichever of the two frames
\* is handled first.
C27_FrameOrderIsIrrelevant ==
  \A f1 \in PriceFrames, f2 \in PriceFrames :
    PriceFields(HandleMessageStore(HandleMessageStore(topics, f1, now),
                                   f2, now))
      = PriceFields(HandleMessageStore(HandleMessageStore(topics, f2, now),
                                       f1, now))

\* the texts of a topic that are indexed
Texts(topic) ==
  {topic.question, topic.description}
    \cup {topic.categories[i] : i \in 1..Len(topic.categories)}

\* text[i..j] is a maximal run of characters other than the blank
IsWordAt(text, i, j) ==
  /\ i <= j
  /\ \A k \in i..j : text[k] # " "
  /\ (i = 1 \/ text[i - 1] = " ")
  /\ (j = Len(text) \/ text[j + 1] = " ")

\* every lower-cased word of every text of every stored topic is a key of
\* the index, and the set under it holds the topic's market_id
IndexCoversStore ==
  \A n \in 1..Len(topics) :
    \A text \in Texts(topics[n]) :
      \A i \in 1..Len(text), j \in 1..Len(text) :
        IsWordAt(text, i, j) =>
          /\ SubSeq(Lower(text), i, j) \in DOMAIN search_index
          /\ topics[n].market_id \in search_index[SubSeq(Lower(text), i, j)]

\* no step takes a word or a market_id out of the index
IndexOnlyGrows ==
  \A w \in DOMAIN search_index :
    /\ w \in DOMAIN search_index'
    /\ search_index[w] \subseteq search_index'[w]

\* C28: in every reachable state the index covers the words of every stored
\* topic's question, description and categories, and no operation removes a
\* word or a market_id from the index.
C28_IndexIsAdditiveSuperset == []IndexCoversStore /\ [][IndexOnlyGrows]_vars

\* the store holds market 1 with the question "A b" alone; the index still
\* has market 2, which was evicted, and lists market 1 under "b", a word of
\* the text market 1 had before it was upserted again
C28_Witness ==
  /\ Len(topics) = 1
  /\ topics[1].market_id = 1
  /\ topics[1].question = <<"A", "b">>
  /\ <<"a", "b">> \in DOMAIN search_index
  /\ <<"b">> \in DOMAIN search_index
  /\ search_index[<<"b">>] = {1, 2}

\* start() has returned to its caller: the lifespan is past line 43 of
\* main.py and goes on to yield and, at shutdown, to its stop() call
StartReturned == loop_pc = "done"

\* C29: start() does not return while the manager is running: it returns
\* only in a step in which the running flag is false, the flag is false
\* whenever start() has returned, and a start() that returned stays so; the
\* caller that awaits start() is inside it for as long as the retry loop is
\* active.
C29_StartReturnsOnlyWhenNotRunning ==
  /\ [](StartReturned => ~running)
  /\ [][(~StartReturned /\ StartReturned') => (~running /\ ~running')]_vars
  /\ [][StartReturned => StartReturned']_vars

\* start() has returned without stop() ever having been called: the
\* connection was established and then closed by the peer
C29_Witness ==
  /\ StartReturned
  /\ stop_pc = "idle"
  /\ ws = "closed"
  /\ ~running
  /\ tasks = <<"pending">>

====
